---- MODULE Spec2Model ----
(***************************************************************************)
(* A model of the training-update logic of two agents of genrl:            *)
(*   - PrioritizedReplayDQN.get_q_loss  (genrl/deep/agents/dqn/prioritized.py) *)
(*   - PPO1                             (genrl/deep/agents/ppo1/ppo1.py)   *)
(*                                                                         *)
(* Real numbers are fixed-point integers.  A tensor is a sequence.  A mean *)
(* is kept exact, as the pair of a sum and a count.                        *)
(***************************************************************************)
EXTENDS Integers, Sequences, FiniteSets, TLC

VARIABLES
    \* ---- PrioritizedReplayDQN ----
    replay_buffer,   \* the priority of each stored transition
    dqn_pc,          \* where the running get_q_loss stands
    dqn_locals,      \* the locals of the running get_q_loss
    dqn_calls,       \* the replay_buffer calls the running (or last) get_q_loss made
    dqn_logs,        \* self.logs["value_loss"]
    dqn_ret,         \* what the last get_q_loss returned
    \* ---- PPO1.update_policy on one minibatch ----
    clip_batch,      \* the minibatch rollout.get yielded
    clip_out,        \* the locals of the loop body once it has run
    \* ---- PPO1 in the training cycle ----
    phase,             \* where the training cycle stands
    epoch,             \* cycles completed
    rollout,           \* self.rollout
    logs,              \* self.logs
    rewards,           \* self.rewards
    ac,                \* self.ac: the actor's and the critic's weights and gradients
    optimizer_policy,  \* self.optimizer_policy
    optimizer_value,   \* self.optimizer_value
    opt_log,           \* the optimizer calls of the last pass of update_policy's loop body
    upd,               \* where update_policy stands
    ppo_ret,           \* what the last call of a PPO1 method returned
    \* ---- PPO1.create_model ----
    load_model,      \* self.load_model
    saved,           \* the checkpoint file at load_model
    checkpoint,      \* self.checkpoint
    cm_pc,           \* where create_model stands
    cm_ac,           \* self.ac: the actor's and the critic's weights
    cm_attrs,        \* the agent's scalar attributes
    cm_built,        \* the optimizers and the rollout buffer, once built
    cm_err,          \* the exception create_model raised
    cm_printed       \* what create_model printed

dqnVars == <<replay_buffer, dqn_pc, dqn_locals, dqn_calls, dqn_logs, dqn_ret>>

clipVars == <<clip_batch, clip_out>>

ppoVars == <<phase, epoch, rollout, logs, rewards, ac, optimizer_policy, optimizer_value,
             opt_log, upd, ppo_ret>>

loadVars == <<load_model, saved, checkpoint, cm_pc, cm_ac, cm_attrs, cm_built, cm_err,
              cm_printed>>

vars == <<dqnVars, clipVars, ppoVars, loadVars>>

None == [op |-> "none"]

(***************************************************************************)
(* Tensors.                                                                *)
(***************************************************************************)
RECURSIVE Sum(_)
Sum(s) == IF s = <<>> THEN 0 ELSE Head(s) + Sum(Tail(s))

\* tensor.mean(): the sum over the count, kept exact
Mean(s) == [num |-> Sum(s), den |-> Len(s)]

Neg(m) == [num |-> -m.num, den |-> m.den]

\* tensor.item() of a scalar: the number, to the resolution of its unit
Item(m) == m.num \div m.den

(***************************************************************************)
(* PrioritizedReplayDQN                                                    *)
(*                                                                         *)
(* Units: a Q-value is a multiple of 0.01, an importance weight a multiple *)
(* of 0.1, so that a weighted squared TD error and a priority are          *)
(* multiples of 1e-5.                                                      *)
(***************************************************************************)
\* transitions stored in the replay buffer
BufferSize == 2
\* get_q_loss calls of one run
MaxQCalls == 2
\* self.batch_size
batch_size == 2
\* self.beta, in units of 0.1
beta == 4
\* the constant added to the per-sample loss, 1e-5, in units of 1e-5
PriorityEps == 1

\* importance weights 0, 0.5, 1.0
Weights == {0, 5, 10}
\* Q-values and target Q-values
QValues == 0 .. 1

Batch(S) == [1 .. batch_size -> S]

\* replay_buffer.update_priorities(indices, priorities): one priority per index, in order
RECURSIVE update_priorities(_, _, _)
update_priorities(prios, indices, priorities) ==
    IF indices = <<>> \/ priorities = <<>> THEN prios
    ELSE update_priorities([prios EXCEPT ![Head(indices)] = Head(priorities)],
                           Tail(indices), Tail(priorities))

\* a loss that leaves the importance weights out
QLossTensor_Unweighted(weights, q_values, target_q_values) ==
    [i \in 1 .. Len(weights) |->
        (q_values[i] - target_q_values[i]) * (q_values[i] - target_q_values[i])]

\* loss = weights * (q_values - target_q_values.detach()) ** 2
QLossTensor(weights, q_values, target_q_values) ==
    [i \in 1 .. Len(weights) |->
        weights[i] * (q_values[i] - target_q_values[i]) * (q_values[i] - target_q_values[i])]

\* a priority without the additive constant
Priorities_NoEps(loss) == [i \in 1 .. Len(loss) |-> loss[i]]

\* priorities = loss + 1e-5
Priorities(loss) == [i \in 1 .. Len(loss) |-> loss[i] + PriorityEps]

\* self.replay_buffer.sample(self.batch_size, self.beta)
GetQLossSample ==
    /\ dqn_pc = "idle"
    /\ Len(dqn_logs) < MaxQCalls
    /\ \E indices \in Batch(1 .. BufferSize), weights \in Batch(Weights) :
          /\ dqn_locals' = [indices |-> indices, weights |-> weights]
          /\ dqn_calls' = <<[op |-> "sample", batch_size |-> batch_size, beta |-> beta,
                             indices |-> indices]>>
    /\ dqn_pc' = "sampled"
    /\ dqn_ret' = None
    /\ UNCHANGED <<replay_buffer, dqn_logs, clipVars, ppoVars, loadVars>>

\* a loss computed without the priorities being written back
GetQLossUpdate_NoWriteBack ==
    /\ dqn_pc = "sampled"
    /\ \E q_values \in Batch(QValues), target_q_values \in Batch(QValues) :
          LET loss == QLossTensor(dqn_locals.weights, q_values, target_q_values)
          IN  dqn_locals' = [indices |-> dqn_locals.indices,
                             weights |-> dqn_locals.weights,
                             q_values |-> q_values,
                             target_q_values |-> target_q_values,
                             priorities |-> Priorities(loss),
                             loss |-> Mean(loss)]
    /\ dqn_pc' = "updated"
    /\ UNCHANGED <<replay_buffer, dqn_calls, dqn_logs, dqn_ret, clipVars, ppoVars, loadVars>>

\* q_values, target_q_values, loss, priorities, update_priorities
GetQLossUpdate ==
    /\ dqn_pc = "sampled"
    /\ \E q_values \in Batch(QValues), target_q_values \in Batch(QValues) :
          LET loss == QLossTensor(dqn_locals.weights, q_values, target_q_values)
              priorities == Priorities(loss)
          IN  /\ dqn_locals' = [indices |-> dqn_locals.indices,
                                weights |-> dqn_locals.weights,
                                q_values |-> q_values,
                                target_q_values |-> target_q_values,
                                priorities |-> priorities,
                                loss |-> Mean(loss)]
              /\ replay_buffer' = update_priorities(replay_buffer, dqn_locals.indices, priorities)
              /\ dqn_calls' = Append(dqn_calls, [op |-> "update_priorities",
                                                 indices |-> dqn_locals.indices,
                                                 priorities |-> priorities])
    /\ dqn_pc' = "updated"
    /\ UNCHANGED <<dqn_logs, dqn_ret, clipVars, ppoVars, loadVars>>

\* self.logs["value_loss"].append(loss.item()); return loss
GetQLossReturn ==
    /\ dqn_pc = "updated"
    /\ dqn_logs' = Append(dqn_logs, Item(dqn_locals.loss))
    /\ dqn_ret' = [op |-> "get_q_loss", loss |-> dqn_locals.loss]
    /\ dqn_locals' = None
    /\ dqn_pc' = "idle"
    /\ UNCHANGED <<replay_buffer, dqn_calls, clipVars, ppoVars, loadVars>>

DQNStart ==
    /\ replay_buffer = [i \in 1 .. BufferSize |-> 100000]
    /\ dqn_pc = "idle"
    /\ dqn_locals = None
    /\ dqn_calls = <<>>
    /\ dqn_logs = <<>>
    /\ dqn_ret = None

(***************************************************************************)
(* PPO1: the arithmetic of update_policy's loop body                       *)
(*                                                                         *)
(* Units: a log-probability is a multiple of 0.1, a probability ratio a    *)
(* multiple of 0.01, a normalised advantage a multiple of 0.1, so that a   *)
(* policy-loss term is a multiple of 0.001.  An entropy is a multiple of   *)
(* 0.1 and entropy_coeff a multiple of 0.01.                               *)
(***************************************************************************)
\* the ratio 1.0
RatioOne == 100
\* clip_param = 0.2
clip_param == 20
\* entropy_coeff = 0.01
entropy_coeff == 1
\* 1.0 as a normalised advantage
AdvScale == 10
\* the max-norm of clip_grad_norm_, 0.5, in units of 0.1
max_grad_norm == 5
\* the largest minibatch of the arithmetic's check
MaxBatch == 3

\* torch.exp on the log-probability differences -0.3 .. 0.3, rounded to 0.01
ExpTable == [d \in -3 .. 3 |->
    CASE d = -3 -> 74 [] d = -2 -> 82 [] d = -1 -> 90 [] d = 0 -> 100
      [] d = 1 -> 111 [] d = 2 -> 122 [] d = 3 -> 135]

Exp(d) == ExpTable[d]

ISqrt(k, bound) == CHOOSE r \in 0 .. bound : r * r <= k /\ (r + 1) * (r + 1) > k

Sign(x) == IF x > 0 THEN 1 ELSE IF x < 0 THEN -1 ELSE 0

\* (advantages - advantages.mean()) / (advantages.std() + 1e-8), for two samples
\* or more.  With c[i] = n * a[i] - sum(a): a[i] - mean = c[i] / n and (std is
\* the unbiased one) std^2 = sum(c^2) / (n^2 * (n - 1)), so the quotient is
\* sign(c[i]) * sqrt(c[i]^2 * (n - 1) / sum(c^2)); when std is 0 every
\* numerator is 0 and the 1e-8 makes the quotient 0.
NormalizeAdvantages(a) ==
    LET n == Len(a)
        c == [i \in 1 .. n |-> n * a[i] - Sum(a)]
        S2 == Sum([i \in 1 .. n |-> c[i] * c[i]])
    IN  [i \in 1 .. n |->
            IF S2 = 0 THEN 0
            ELSE Sign(c[i]) * ISqrt((c[i] * c[i] * (n - 1) * AdvScale * AdvScale) \div S2,
                                    AdvScale * n)]

\* ratio = torch.exp(log_prob - rollout.old_log_prob)
Ratio(log_prob, old_log_prob) ==
    [i \in 1 .. Len(log_prob) |-> Exp(log_prob[i] - old_log_prob[i])]

\* torch.clamp(x, lo, hi)
Clamp(x, lo, hi) == IF x < lo THEN lo ELSE IF x > hi THEN hi ELSE x

\* policy_loss_1 = advantages * ratio
PolicyLoss1(advantages, ratio) ==
    [i \in 1 .. Len(ratio) |-> advantages[i] * ratio[i]]

\* a second term that is not clipped
PolicyLoss2_NoClamp(advantages, ratio) ==
    [i \in 1 .. Len(ratio) |-> advantages[i] * ratio[i]]

\* policy_loss_2 = advantages * torch.clamp(ratio, 1 - clip_param, 1 + clip_param)
PolicyLoss2(advantages, ratio) ==
    [i \in 1 .. Len(ratio) |->
        advantages[i] * Clamp(ratio[i], RatioOne - clip_param, RatioOne + clip_param)]

\* torch.min(a, b), pointwise
TorchMin(a, b) == [i \in 1 .. Len(a) |-> IF a[i] <= b[i] THEN a[i] ELSE b[i]]

\* policy_loss = -torch.min(policy_loss_1, policy_loss_2).mean()
PolicyLoss(policy_loss_1, policy_loss_2) == Neg(Mean(TorchMin(policy_loss_1, policy_loss_2)))

\* nn.functional.mse_loss(rollout.returns, values)
MseLoss(returns, values) ==
    Mean([i \in 1 .. Len(values) |-> (returns[i] - values[i]) * (returns[i] - values[i])])

\* entropy_loss = -torch.mean(entropy)
EntropyLoss(entropy) == Neg(Mean(entropy))

\* a loss with the value loss folded in
CombinedLoss_WithValueLoss(policy_loss, entropy_loss) ==
    [num |-> policy_loss.num + entropy_coeff * entropy_loss.num,
     den |-> policy_loss.den,
     terms |-> {"policy_loss", "entropy_loss", "value_loss"}]

\* loss = policy_loss + self.entropy_coeff * entropy_loss: its value, and the
\* losses it is computed from
CombinedLoss(policy_loss, entropy_loss) ==
    [num |-> policy_loss.num + entropy_coeff * entropy_loss.num,
     den |-> policy_loss.den,
     terms |-> {"policy_loss", "entropy_loss"}]

Column(mb, f) == [i \in 1 .. Len(mb) |-> mb[i][f]]

\* the locals of one pass of update_policy's loop body on the minibatch mb
MinibatchLocals(mb) ==
    LET advantages == NormalizeAdvantages(Column(mb, "advantage"))
        ratio == Ratio(Column(mb, "log_prob"), Column(mb, "old_log_prob"))
        policy_loss_1 == PolicyLoss1(advantages, ratio)
        policy_loss_2 == PolicyLoss2(advantages, ratio)
        policy_loss == PolicyLoss(policy_loss_1, policy_loss_2)
        value_loss == MseLoss(Column(mb, "return"), Column(mb, "value"))
        entropy_loss == EntropyLoss(Column(mb, "entropy"))
    IN  [advantages |-> advantages,
         ratio |-> ratio,
         policy_loss_1 |-> policy_loss_1,
         policy_loss_2 |-> policy_loss_2,
         policy_loss |-> policy_loss,
         value_loss |-> value_loss,
         entropy_loss |-> entropy_loss,
         loss |-> CombinedLoss(policy_loss, entropy_loss)]

\* the samples a minibatch of the arithmetic's check is drawn from
ClipSamples ==
    [advantage : {-1, 2}, old_log_prob : {-3, -2}, log_prob : {-5, -3, -2, 0},
     return : {1}, value : {0}, entropy : {7}]

Minibatches(S, n) == [1 .. n -> S]

\* the loop body of update_policy, run on the minibatch
ClipUpdate ==
    /\ clip_out = None
    /\ clip_out' = MinibatchLocals(clip_batch)
    /\ UNCHANGED <<clip_batch, dqnVars, ppoVars, loadVars>>

ClipStart ==
    /\ clip_out = None
    /\ \E n \in 2 .. MaxBatch : clip_batch \in Minibatches(ClipSamples, n)

ClipOff ==
    /\ clip_out = None
    /\ clip_batch = <<>>

(***************************************************************************)
(* PPO1 in the training cycle                                              *)
(*   Collect -> ComputeReturns -> UpdateEpochs -> Empty -> Collect         *)
(* The methods of PPO1 are the lower-case definitions; the cycle that      *)
(* calls them is the trainer's.                                            *)
(***************************************************************************)
\* self.rollout_size (one environment)
rollout_size == 4
\* cycles of one training run
epochs == 2
\* update_policy calls on one rollout
UpdatePasses == 2
\* entries self.logs holds before get_logging_params is called
MaxLog == 4
\* entries self.rewards holds before get_logging_params is called
MaxRewards == 2

EpisodeRewards == {1, 3}
Actions == {0, 1}

\* the samples the minibatches of the cycle are drawn from
CycleSamples ==
    {[advantage |-> -1, old_log_prob |-> -3, log_prob |-> -3, return |-> 1, value |-> 0,
      entropy |-> 7],
     [advantage |-> 2, old_log_prob |-> -3, log_prob |-> 0, return |-> 1, value |-> 1,
      entropy |-> 5]}

\* rollout.get(batch_size): the number of minibatches and the size of the k-th
NumMinibatches == (rollout_size + batch_size - 1) \div batch_size

MinibatchSize(k) ==
    IF k * batch_size <= rollout_size THEN batch_size
    ELSE rollout_size - (k - 1) * batch_size

NoGrad == [terms |-> {}, clipped |-> FALSE]

\* rollout.reset()
RolloutReset == [pos |-> 0, full |-> FALSE, returns_computed |-> 0, served |-> 0]

NoLogs == [policy_loss |-> <<>>, value_loss |-> <<>>, policy_entropy |-> <<>>]

\* safe_mean(log)
safe_mean(log) == IF log = <<>> THEN [nan |-> TRUE] ELSE Mean(log)

\* a select_action that records the transition itself
select_action_Records ==
    /\ \E action \in Actions :
          ppo_ret' = [op |-> "select_action", action |-> action, value |-> 0, log_prob |-> -3]
    /\ rollout' = [rollout EXCEPT !.pos = @ + 1]
    /\ UNCHANGED <<logs, rewards, ac, optimizer_policy, optimizer_value, opt_log>>

\* select_action(state): the action, the value estimate and the log-probability
select_action ==
    /\ \E action \in Actions :
          ppo_ret' = [op |-> "select_action", action |-> action, value |-> 0, log_prob |-> -3]
    /\ UNCHANGED <<rollout, logs, rewards, ac, optimizer_policy, optimizer_value, opt_log>>

\* a get_traj_loss that leaves the returns as they are
get_traj_loss_Skip ==
    /\ rollout' = rollout
    /\ ppo_ret' = None

\* get_traj_loss(values, dones): rollout.compute_returns_and_advantage(..., use_gae=True)
get_traj_loss ==
    /\ rollout' = [rollout EXCEPT !.returns_computed = @ + 1]
    /\ ppo_ret' = None

\* which parameters a loss depends on
TermParams(t) == IF t = "value_loss" THEN "critic" ELSE "actor"

\* zero_grad, backward, clip_grad_norm_, step, in the loop body's order
OptimizerOps(l) ==
    <<[op |-> "zero_grad", params |-> "actor", terms |-> {}, max_norm |-> 0],
      [op |-> "backward", params |-> "graph", terms |-> l.loss.terms, max_norm |-> 0],
      [op |-> "clip_grad_norm_", params |-> "actor", terms |-> {}, max_norm |-> max_grad_norm],
      [op |-> "step", params |-> "actor", terms |-> {}, max_norm |-> 0],
      [op |-> "zero_grad", params |-> "critic", terms |-> {}, max_norm |-> 0],
      [op |-> "backward", params |-> "graph", terms |-> {"value_loss"}, max_norm |-> 0],
      [op |-> "clip_grad_norm_", params |-> "critic", terms |-> {}, max_norm |-> max_grad_norm],
      [op |-> "step", params |-> "critic", terms |-> {}, max_norm |-> 0]>>

\* what one optimizer call does to the gradients, the weights and the optimizers
ApplyOp(st, o) ==
    CASE o.op = "zero_grad" ->
            [st EXCEPT !.ac[o.params].grad = NoGrad]
      [] o.op = "backward" ->
            [st EXCEPT !.ac = [p \in {"actor", "critic"} |->
                LET reached == {t \in o.terms : TermParams(t) = p}
                IN  IF reached = {} THEN st.ac[p]
                    ELSE [st.ac[p] EXCEPT !.grad = [terms |-> @.terms \cup reached,
                                                    clipped |-> FALSE]]]]
      [] o.op = "clip_grad_norm_" ->
            [st EXCEPT !.ac[o.params].grad.clipped = TRUE]
      [] o.op = "step" /\ o.params = "actor" ->
            [st EXCEPT !.ac.actor.version = @ + 1,
                       !.optimizer_policy = [steps |-> @.steps + 1, applied |-> st.ac.actor.grad]]
      [] o.op = "step" /\ o.params = "critic" ->
            [st EXCEPT !.ac.critic.version = @ + 1,
                       !.optimizer_value = [steps |-> @.steps + 1, applied |-> st.ac.critic.grad]]

RECURSIVE ApplyOps(_, _)
ApplyOps(st, ops) == IF ops = <<>> THEN st ELSE ApplyOps(ApplyOp(st, Head(ops)), Tail(ops))

\* one pass of update_policy's loop body, on the minibatch mb
update_policy_body(mb) ==
    LET l == MinibatchLocals(mb)
        ops == OptimizerOps(l)
        st == ApplyOps([ac |-> ac, optimizer_policy |-> optimizer_policy,
                        optimizer_value |-> optimizer_value], ops)
    IN  /\ logs' = [policy_loss |-> Append(logs.policy_loss, Item(l.policy_loss)),
                    value_loss |-> Append(logs.value_loss, Item(l.value_loss)),
                    policy_entropy |-> Append(logs.policy_entropy, Item(l.entropy_loss))]
        /\ ac' = st.ac
        /\ optimizer_policy' = st.optimizer_policy
        /\ optimizer_value' = st.optimizer_value
        /\ opt_log' = ops

\* an empty_logs that forgets self.rewards
empty_logs_KeepRewards ==
    /\ logs' = NoLogs
    /\ rewards' = rewards

\* empty_logs()
empty_logs ==
    /\ logs' = NoLogs
    /\ rewards' = <<>>

\* get_logging_params()
get_logging_params ==
    /\ ppo_ret' = [op |-> "get_logging_params",
                   logs |-> [policy_loss |-> safe_mean(logs.policy_loss),
                             value_loss |-> safe_mean(logs.value_loss),
                             policy_entropy |-> safe_mean(logs.policy_entropy),
                             mean_reward |-> safe_mean(rewards)]]
    /\ empty_logs

\* Collect: the agent picks an action
SelectAction ==
    /\ phase = "Collect"
    /\ ~rollout.full
    /\ select_action
    /\ UNCHANGED <<phase, epoch, upd, dqnVars, clipVars, loadVars>>

\* Collect: the caller steps the environment and records the transition
RecordTransition ==
    /\ phase = "Collect"
    /\ ppo_ret.op = "select_action"
    /\ rollout.pos < rollout_size
    /\ rollout' = [rollout EXCEPT !.pos = @ + 1, !.full = (rollout.pos + 1 = rollout_size)]
    /\ \/ UNCHANGED rewards
       \/ /\ Len(rewards) < MaxRewards
          /\ \E r \in EpisodeRewards : rewards' = Append(rewards, r)
    /\ phase' = IF rollout.pos + 1 = rollout_size THEN "ComputeReturns" ELSE "Collect"
    /\ ppo_ret' = None
    /\ UNCHANGED <<epoch, logs, ac, optimizer_policy, optimizer_value, opt_log, upd,
                   dqnVars, clipVars, loadVars>>

\* ComputeReturns
ComputeReturns ==
    /\ phase = "ComputeReturns"
    /\ get_traj_loss
    /\ phase' = "UpdateEpochs"
    /\ UNCHANGED <<epoch, logs, rewards, ac, optimizer_policy, optimizer_value, opt_log, upd,
                   dqnVars, clipVars, loadVars>>

\* UpdateEpochs: update_policy consumes the next minibatch of rollout.get
UpdatePolicyMinibatch ==
    /\ phase = "UpdateEpochs"
    /\ upd.mb < NumMinibatches
    /\ upd.mb = 0 => Len(logs.policy_loss) + NumMinibatches <= MaxLog
    /\ \E mb \in Minibatches(CycleSamples, MinibatchSize(upd.mb + 1)) : update_policy_body(mb)
    /\ rollout' = [rollout EXCEPT !.served = @ + 1]
    /\ upd' = [upd EXCEPT !.mb = @ + 1]
    /\ ppo_ret' = None
    /\ UNCHANGED <<phase, epoch, rewards, dqnVars, clipVars, loadVars>>

\* UpdateEpochs: rollout.get is exhausted and update_policy returns
UpdatePolicyReturn ==
    /\ phase = "UpdateEpochs"
    /\ upd.mb = NumMinibatches
    /\ upd' = [mb |-> 0, passes |-> upd.passes + 1]
    /\ phase' = IF upd.passes + 1 = UpdatePasses THEN "Empty" ELSE "UpdateEpochs"
    /\ ppo_ret' = [op |-> "update_policy"]
    /\ UNCHANGED <<epoch, rollout, logs, rewards, ac, optimizer_policy, optimizer_value,
                   opt_log, dqnVars, clipVars, loadVars>>

\* Empty: the rollout buffer is reset for the next cycle
EmptyRollout ==
    /\ phase = "Empty"
    /\ rollout' = RolloutReset
    /\ upd' = [mb |-> 0, passes |-> 0]
    /\ epoch' = epoch + 1
    /\ phase' = IF epoch + 1 < epochs THEN "Collect" ELSE "Done"
    /\ ppo_ret' = None
    /\ UNCHANGED <<logs, rewards, ac, optimizer_policy, optimizer_value, opt_log,
                   dqnVars, clipVars, loadVars>>

\* the logger reads the metrics, between two calls of the cycle
GetLoggingParams ==
    /\ upd.mb = 0
    /\ get_logging_params
    /\ UNCHANGED <<phase, epoch, rollout, ac, optimizer_policy, optimizer_value, opt_log, upd,
                   dqnVars, clipVars, loadVars>>

\* PPO1.__init__: empty_logs() and create_model()
PPOStart ==
    /\ phase = "Collect"
    /\ epoch = 0
    /\ rollout = RolloutReset
    /\ logs = NoLogs
    /\ rewards = <<>>
    /\ ac = [actor |-> [version |-> 0, grad |-> NoGrad],
             critic |-> [version |-> 0, grad |-> NoGrad]]
    /\ optimizer_policy = [steps |-> 0, applied |-> NoGrad]
    /\ optimizer_value = [steps |-> 0, applied |-> NoGrad]
    /\ opt_log = <<>>
    /\ upd = [mb |-> 0, passes |-> 0]
    /\ ppo_ret = None

PPOOff ==
    /\ phase = "Off"
    /\ epoch = 0
    /\ rollout = RolloutReset
    /\ logs = NoLogs
    /\ rewards = <<>>
    /\ ac = <<>>
    /\ optimizer_policy = <<>>
    /\ optimizer_value = <<>>
    /\ opt_log = <<>>
    /\ upd = [mb |-> 0, passes |-> 0]
    /\ ppo_ret = None

(***************************************************************************)
(* PPO1.create_model with a checkpoint                                     *)
(*                                                                         *)
(* A state dict is the architecture it was saved from and its data.  A     *)
(* checkpoint maps keys to values.  Learning rates are multiples of 0.001. *)
(***************************************************************************)
\* the networks get_model builds for this agent
FreshAC == [actor |-> [arch |-> "mlp", data |-> "init"],
            critic |-> [arch |-> "mlp", data |-> "init"]]

\* the attributes __init__ has set when create_model is called
InitAttrs == [lr_policy |-> 1, lr_value |-> 1, rollout_size |-> 4]

HyperKeys == {"lr_policy", "lr_value", "rollout_size"}

\* the state dicts a checkpoint may hold: of this architecture or of another
SavedWeights == {[arch |-> "mlp", data |-> "saved"], [arch |-> "cnn", data |-> "saved"]}

\* the checkpoints a file may hold: each weight entry may be missing
Checkpoints ==
    {pw @@ vw @@ hp @@ [save_model |-> "dir"] :
        pw \in {<<>>} \cup {[policy_weights |-> w] : w \in SavedWeights},
        vw \in {<<>>} \cup {[value_weights |-> w] : w \in SavedWeights},
        hp \in [lr_policy : {1, 3}, lr_value : {3}, rollout_size : {4, 8}]}

\* module.load_state_dict(state_dict), strict: a state dict of another
\* architecture has no entry that matches, and the call raises
load_state_dict(module, state_dict) ==
    IF state_dict.arch = module.arch
    THEN [ok |-> TRUE, weights |-> [arch |-> module.arch, data |-> state_dict.data]]
    ELSE [ok |-> FALSE, weights |-> module]

CMFrame == UNCHANGED <<load_model, saved, dqnVars, clipVars, ppoVars>>

\* self.ac = get_model("ac", self.network_type)(...)
CreateNetworks ==
    /\ cm_pc = "start"
    /\ cm_ac' = FreshAC
    /\ cm_pc' = IF load_model # "none" THEN "load" ELSE "optimizers"
    /\ UNCHANGED <<checkpoint, cm_attrs, cm_built, cm_err, cm_printed>>
    /\ CMFrame

\* self.load(self)
LoadCheckpoint ==
    /\ cm_pc = "load"
    /\ checkpoint' = saved
    /\ cm_pc' = "actor"
    /\ UNCHANGED <<cm_ac, cm_attrs, cm_built, cm_err, cm_printed>>
    /\ CMFrame

\* self.ac.actor.load_state_dict(self.checkpoint["policy_weights"])
LoadPolicyWeights ==
    /\ cm_pc = "actor"
    /\ IF "policy_weights" \notin DOMAIN checkpoint
       THEN cm_err' = "KeyError" /\ cm_pc' = "raised" /\ UNCHANGED cm_ac
       ELSE LET r == load_state_dict(cm_ac.actor, checkpoint["policy_weights"])
            IN  /\ cm_ac' = [cm_ac EXCEPT !.actor = r.weights]
                /\ cm_err' = IF r.ok THEN cm_err ELSE "RuntimeError"
                /\ cm_pc' = IF r.ok THEN "critic" ELSE "raised"
    /\ UNCHANGED <<checkpoint, cm_attrs, cm_built, cm_printed>>
    /\ CMFrame

\* a load of the value weights that skips what it cannot load
LoadValueWeights_Lenient ==
    /\ cm_pc = "critic"
    /\ IF "value_weights" \notin DOMAIN checkpoint
       THEN UNCHANGED cm_ac
       ELSE LET r == load_state_dict(cm_ac.critic, checkpoint["value_weights"])
            IN  cm_ac' = [cm_ac EXCEPT !.critic = r.weights]
    /\ cm_pc' = "attrs"
    /\ UNCHANGED <<checkpoint, cm_attrs, cm_built, cm_err, cm_printed>>
    /\ CMFrame

\* self.ac.critic.load_state_dict(self.checkpoint["value_weights"])
LoadValueWeights ==
    /\ cm_pc = "critic"
    /\ IF "value_weights" \notin DOMAIN checkpoint
       THEN cm_err' = "KeyError" /\ cm_pc' = "raised" /\ UNCHANGED cm_ac
       ELSE LET r == load_state_dict(cm_ac.critic, checkpoint["value_weights"])
            IN  /\ cm_ac' = [cm_ac EXCEPT !.critic = r.weights]
                /\ cm_err' = IF r.ok THEN cm_err ELSE "RuntimeError"
                /\ cm_pc' = IF r.ok THEN "attrs" ELSE "raised"
    /\ UNCHANGED <<checkpoint, cm_attrs, cm_built, cm_printed>>
    /\ CMFrame

\* the keys of the checkpoint that are not set as attributes
NotAttributes == {"policy_weights", "value_weights", "save_model"}

\* for key, item in self.checkpoint.items(): setattr(self, key, item);
\* print("Loaded pretrained model")
SetAttributes ==
    /\ cm_pc = "attrs"
    /\ cm_attrs' = [k \in DOMAIN cm_attrs \cup (DOMAIN checkpoint \ NotAttributes) |->
                       IF k \in DOMAIN checkpoint \ NotAttributes THEN checkpoint[k]
                       ELSE cm_attrs[k]]
    /\ cm_printed' = Append(cm_printed, "Loaded pretrained model")
    /\ cm_pc' = "optimizers"
    /\ UNCHANGED <<checkpoint, cm_ac, cm_built, cm_err>>
    /\ CMFrame

\* self.optimizer_policy, self.optimizer_value, self.rollout
BuildOptimizers ==
    /\ cm_pc = "optimizers"
    /\ cm_built' = [optimizer_policy |-> [params |-> cm_ac.actor, lr |-> cm_attrs.lr_policy],
                    optimizer_value |-> [params |-> cm_ac.critic, lr |-> cm_attrs.lr_value],
                    rollout |-> [buffer_size |-> cm_attrs.rollout_size]]
    /\ cm_pc' = "done"
    /\ UNCHANGED <<checkpoint, cm_ac, cm_attrs, cm_err, cm_printed>>
    /\ CMFrame

LoadStart ==
    /\ \/ load_model = "none" /\ saved = <<>>
       \/ load_model = "path" /\ saved \in Checkpoints
    /\ checkpoint = <<>>
    /\ cm_pc = "start"
    /\ cm_ac = <<>>
    /\ cm_attrs = InitAttrs
    /\ cm_built = None
    /\ cm_err = "none"
    /\ cm_printed = <<>>

LoadOff ==
    /\ load_model = "none"
    /\ saved = <<>>
    /\ checkpoint = <<>>
    /\ cm_pc = "off"
    /\ cm_ac = <<>>
    /\ cm_attrs = <<>>
    /\ cm_built = None
    /\ cm_err = "none"
    /\ cm_printed = <<>>

(***************************************************************************)
(* The specifications                                                      *)
(***************************************************************************)
DQNOff ==
    /\ replay_buffer = <<>>
    /\ dqn_pc = "off"
    /\ dqn_locals = None
    /\ dqn_calls = <<>>
    /\ dqn_logs = <<>>
    /\ dqn_ret = None

DQNInit == DQNStart /\ ClipOff /\ PPOOff /\ LoadOff

DQNNext == GetQLossSample \/ GetQLossUpdate \/ GetQLossReturn

SpecDQN == DQNInit /\ [][DQNNext]_vars

ClipInit == ClipStart /\ DQNOff /\ PPOOff /\ LoadOff

ClipNext == ClipUpdate

SpecClip == ClipInit /\ [][ClipNext]_vars

Init == PPOStart /\ DQNOff /\ ClipOff /\ LoadOff

Next ==
    \/ SelectAction
    \/ RecordTransition
    \/ ComputeReturns
    \/ UpdatePolicyMinibatch
    \/ UpdatePolicyReturn
    \/ EmptyRollout
    \/ GetLoggingParams

Spec == Init /\ [][Next]_vars

LoadInit == LoadStart /\ DQNOff /\ ClipOff /\ PPOOff

LoadNext ==
    \/ CreateNetworks
    \/ LoadCheckpoint
    \/ LoadPolicyWeights
    \/ LoadValueWeights
    \/ SetAttributes
    \/ BuildOptimizers

SpecLoad == LoadInit /\ [][LoadNext]_vars

(***************************************************************************)
(* Properties of PrioritizedReplayDQN.get_q_loss                           *)
(***************************************************************************)
UpdateCalls == {k \in DOMAIN dqn_calls : dqn_calls[k].op = "update_priorities"}
SampleCalls == {k \in DOMAIN dqn_calls : dqn_calls[k].op = "sample"}

\* C1: every priority passed to replay_buffer.update_priorities is strictly
\* greater than 0, and so is every priority the buffer holds.
C1_PrioritiesPositive ==
    /\ \A k \in UpdateCalls :
          \A i \in DOMAIN dqn_calls[k].priorities : dqn_calls[k].priorities[i] > 0
    /\ \A j \in DOMAIN replay_buffer : replay_buffer[j] > 0

\* C1 witness: an update was made for a sample whose TD error is exactly 0,
\* and for a sample whose importance weight is 0.
C1_Witness ==
    /\ dqn_pc = "updated"
    /\ UpdateCalls # {}
    /\ \E i \in 1 .. batch_size :
          /\ dqn_locals.q_values[i] = dqn_locals.target_q_values[i]
          /\ dqn_locals.weights[i] > 0
    /\ \E i \in 1 .. batch_size :
          /\ dqn_locals.q_values[i] # dqn_locals.target_q_values[i]
          /\ dqn_locals.weights[i] = 0

\* C2: a get_q_loss call makes exactly one sample(batch_size, beta) and then
\* exactly one update_priorities, at the indices that sample returned, with
\* one priority per index, before it returns.
C2_SampleThenUpdate ==
    /\ Cardinality(SampleCalls) <= 1
    /\ Cardinality(UpdateCalls) <= 1
    /\ dqn_pc = "sampled" => Len(dqn_calls) = 1 /\ dqn_calls[1].op = "sample"
    /\ (dqn_pc = "updated" \/ dqn_ret.op = "get_q_loss") =>
          /\ Len(dqn_calls) = 2
          /\ dqn_calls[1].op = "sample"
          /\ dqn_calls[1].batch_size = batch_size
          /\ dqn_calls[1].beta = beta
          /\ dqn_calls[2].op = "update_priorities"
          /\ dqn_calls[2].indices = dqn_calls[1].indices
          /\ Len(dqn_calls[2].priorities) = Len(dqn_calls[1].indices)

\* C2 witness: a second get_q_loss has returned its loss.
C2_Witness ==
    /\ dqn_pc = "idle"
    /\ dqn_ret.op = "get_q_loss"
    /\ Len(dqn_logs) = 2
    /\ Len(dqn_calls) = 2

\* C3 as stated: the priority written back is the TD error (the Q-value minus
\* the target Q-value) plus 1e-5.  A Q-value unit, 0.01, is 1000 units of 1e-5.
C3_PriorityIsTDError ==
    dqn_pc = "updated" =>
        \A i \in 1 .. batch_size :
            dqn_calls[2].priorities[i] =
                (dqn_locals.q_values[i] - dqn_locals.target_q_values[i]) * 1000 + PriorityEps

\* C3 amended: the priority written back is the importance-weighted squared
\* TD error (the per-sample loss) plus 1e-5.
C3_PriorityIsWeightedSquaredError ==
    dqn_pc = "updated" =>
        \A i \in 1 .. batch_size :
            LET d == dqn_locals.q_values[i] - dqn_locals.target_q_values[i]
            IN  dqn_calls[2].priorities[i] = dqn_locals.weights[i] * d * d + PriorityEps

\* C3 witness: an update for a sample with a non-zero TD error and a weight
\* that is neither 0 nor 1.
C3_Witness ==
    /\ dqn_pc = "updated"
    /\ \E i \in 1 .. batch_size :
          /\ dqn_locals.q_values[i] # dqn_locals.target_q_values[i]
          /\ dqn_locals.weights[i] = 5
          /\ dqn_calls[2].priorities[i] = 6

(***************************************************************************)
(* Properties of the clipped objective of PPO1.update_policy               *)
(***************************************************************************)
ClipRan == clip_out # None

InBand(r) == RatioOne - clip_param <= r /\ r <= RatioOne + clip_param

\* the per-sample objective min(ratio * advantage, clip(ratio) * advantage),
\* written out from the locals
Objective(i) ==
    LET unclipped == clip_out.advantages[i] * clip_out.ratio[i]
        clipped == clip_out.advantages[i] *
                     (IF clip_out.ratio[i] < RatioOne - clip_param THEN RatioOne - clip_param
                      ELSE IF clip_out.ratio[i] > RatioOne + clip_param THEN RatioOne + clip_param
                      ELSE clip_out.ratio[i])
    IN  IF unclipped < clipped THEN unclipped ELSE clipped

\* C4: for every sample of the minibatch: with the ratio inside
\* [1 - clip_param, 1 + clip_param] the clipped and the unclipped term are
\* equal; with the ratio above the band and a positive advantage the objective
\* is (1 + clip_param) * advantage, below the unclipped term; with the ratio
\* below the band and a positive advantage the objective is the unclipped term
\* and at most (1 - clip_param) * advantage; and policy_loss is the negated
\* mean of the objective.
C4_ClippedObjective ==
    ClipRan =>
        /\ \A i \in DOMAIN clip_batch :
              /\ clip_out.policy_loss_1[i] = clip_out.advantages[i] * clip_out.ratio[i]
              /\ InBand(clip_out.ratio[i]) =>
                    clip_out.policy_loss_2[i] = clip_out.policy_loss_1[i]
              /\ (clip_out.ratio[i] > RatioOne + clip_param /\ clip_out.advantages[i] > 0) =>
                    /\ clip_out.policy_loss_2[i] = (RatioOne + clip_param) * clip_out.advantages[i]
                    /\ Objective(i) = (RatioOne + clip_param) * clip_out.advantages[i]
                    /\ Objective(i) < clip_out.policy_loss_1[i]
              /\ (clip_out.ratio[i] < RatioOne - clip_param /\ clip_out.advantages[i] > 0) =>
                    /\ clip_out.policy_loss_2[i] = (RatioOne - clip_param) * clip_out.advantages[i]
                    /\ Objective(i) = clip_out.policy_loss_1[i]
                    /\ Objective(i) <= (RatioOne - clip_param) * clip_out.advantages[i]
        /\ clip_out.policy_loss.den = Len(clip_batch)
        /\ clip_out.policy_loss.num = -Sum([i \in DOMAIN clip_batch |-> Objective(i)])

\* C4 witness: the loop body ran on a minibatch with a sample inside the band
\* whose ratio is not 1 and whose advantage is not 0, and a sample above the
\* band and a sample below it, each with a positive advantage.
C4_Witness ==
    /\ ClipRan
    /\ \E i, j, k \in DOMAIN clip_batch :
          /\ InBand(clip_out.ratio[i]) /\ clip_out.ratio[i] # RatioOne
          /\ clip_out.advantages[i] # 0
          /\ clip_out.ratio[j] > RatioOne + clip_param /\ clip_out.advantages[j] > 0
          /\ clip_out.ratio[k] < RatioOne - clip_param /\ clip_out.advantages[k] > 0
    /\ clip_out.policy_loss.num # 0

(***************************************************************************)
(* Properties of PPO1 in the training cycle                                *)
(***************************************************************************)
\* C5: in the cycle, update_policy consumes minibatches only of a full rollout
\* whose returns get_traj_loss computed exactly once; the returns are computed
\* at most once per rollout, not before the rollout is complete, and exactly
\* once by the time the rollout is emptied.
C5_ReturnsOncePerRollout ==
    /\ rollout.returns_computed <= 1
    /\ rollout.returns_computed = 1 => rollout.full
    /\ (rollout.served > 0 \/ upd.mb > 0 \/ upd.passes > 0) =>
          rollout.full /\ rollout.returns_computed = 1
    /\ phase \in {"UpdateEpochs", "Empty"} => rollout.returns_computed = 1
    /\ phase = "Empty" => rollout.served = UpdatePasses * NumMinibatches

\* C5 witness: in the second cycle, update_policy has consumed every minibatch
\* of the rollout twice.
C5_Witness ==
    /\ epoch = 1
    /\ phase = "Empty"
    /\ rollout.served = UpdatePasses * NumMinibatches
    /\ rollout.returns_computed = 1

MeanOrNan(log) == IF Len(log) = 0 THEN [nan |-> TRUE] ELSE [num |-> Sum(log), den |-> Len(log)]

\* C6: a call of get_logging_params leaves logs["policy_loss"],
\* logs["value_loss"], logs["policy_entropy"] and rewards empty and returns the
\* means of what they held immediately before the call.
C6_LoggingClearsLogs ==
    [][ppo_ret'.op = "get_logging_params" =>
          /\ logs'.policy_loss = <<>>
          /\ logs'.value_loss = <<>>
          /\ logs'.policy_entropy = <<>>
          /\ DOMAIN logs' = {"policy_loss", "value_loss", "policy_entropy"}
          /\ rewards' = <<>>
          /\ ppo_ret'.logs = [policy_loss |-> MeanOrNan(logs.policy_loss),
                              value_loss |-> MeanOrNan(logs.value_loss),
                              policy_entropy |-> MeanOrNan(logs.policy_entropy),
                              mean_reward |-> MeanOrNan(rewards)]]_vars

\* C6 witness: get_logging_params has returned means of lists that update_policy
\* and the collection had filled.
C6_Witness ==
    /\ ppo_ret.op = "get_logging_params"
    /\ logs = NoLogs
    /\ rewards = <<>>
    /\ ppo_ret.logs.policy_loss = [num |-> -70, den |-> 2]
    /\ ppo_ret.logs.value_loss = [num |-> 1, den |-> 2]
    /\ ppo_ret.logs.policy_entropy = [num |-> -13, den |-> 2]
    /\ ppo_ret.logs.mean_reward = [num |-> 4, den |-> 2]

\* C7: a call of select_action changes neither the rollout buffer, the metrics
\* log, the rewards, the optimizers nor the weights; it returns the action, its
\* log-probability and the value estimate.
C7_SelectActionFrame ==
    [][ppo_ret'.op = "select_action" =>
          /\ UNCHANGED <<rollout, logs, rewards, optimizer_policy, optimizer_value, ac>>
          /\ DOMAIN ppo_ret' = {"op", "action", "value", "log_prob"}]_vars

\* C7 witness: select_action has returned for the second step of a rollout, in
\* the second cycle, with logs and rewards that are not empty.
C7_Witness ==
    /\ ppo_ret.op = "select_action"
    /\ epoch = 1
    /\ rollout.pos = 1
    /\ logs.policy_loss # <<>>
    /\ rewards # <<>>
    /\ optimizer_policy.steps > 0

StepsOn(p) == {k \in DOMAIN opt_log : opt_log[k].op = "step" /\ opt_log[k].params = p}

\* the optimizer step on p comes after a zero_grad of p, a backward of exactly
\* the losses `terms` and a clip_grad_norm_ of p, in this order, with no other
\* backward in between
PreparedStep(p, terms) ==
    \A k \in StepsOn(p) :
        \E z, b, c \in 1 .. k :
            /\ z < b /\ b < c /\ c < k
            /\ opt_log[z].op = "zero_grad" /\ opt_log[z].params = p
            /\ opt_log[b].op = "backward" /\ opt_log[b].terms = terms
            /\ opt_log[c].op = "clip_grad_norm_" /\ opt_log[c].params = p
            /\ opt_log[c].max_norm = max_grad_norm
            /\ \A j \in (z + 1) .. (k - 1) : opt_log[j].op = "backward" => j = b

\* C10: every minibatch of rollout.get causes exactly one policy-optimizer step
\* and then exactly one value-optimizer step, each after zeroing that
\* optimizer's gradients and clipping their norm; the policy step applies the
\* gradient of policy_loss and entropy_loss only, the value step that of
\* value_loss only.
C10_OneStepEachPerMinibatch ==
    /\ optimizer_policy.steps = epoch * UpdatePasses * NumMinibatches + rollout.served
    /\ optimizer_value.steps = optimizer_policy.steps
    /\ ac.actor.version = optimizer_policy.steps
    /\ ac.critic.version = optimizer_value.steps
    /\ optimizer_policy.steps > 0 =>
          /\ Cardinality(StepsOn("actor")) = 1
          /\ Cardinality(StepsOn("critic")) = 1
          /\ \A k \in StepsOn("actor") : \A j \in StepsOn("critic") : k < j
          /\ PreparedStep("actor", {"policy_loss", "entropy_loss"})
          /\ PreparedStep("critic", {"value_loss"})
          /\ optimizer_policy.applied = [terms |-> {"policy_loss", "entropy_loss"},
                                         clipped |-> TRUE]
          /\ optimizer_value.applied = [terms |-> {"value_loss"}, clipped |-> TRUE]

\* C10 witness: update_policy has consumed the second minibatch of its second
\* call on a rollout.
C10_Witness ==
    /\ phase = "UpdateEpochs"
    /\ upd.passes = 1
    /\ upd.mb = 2
    /\ optimizer_policy.steps = 4
    /\ Len(opt_log) = 8

(***************************************************************************)
(* Properties of PPO1.create_model with a checkpoint                       *)
(***************************************************************************)
Loads(key) ==
    /\ key \in DOMAIN saved
    /\ saved[key].arch = FreshAC.actor.arch

BadCheckpoint == load_model # "none" /\ ~(Loads("policy_weights") /\ Loads("value_weights"))

\* C8 as stated: the load is atomic.  Either the weights and the
\* hyperparameters are all restored, and the optimizers and the rollout buffer
\* are built from the restored values, or the load fails and neither the
\* weights nor the hyperparameters have changed.
C8_AtomicLoad ==
    /\ cm_pc = "raised" => cm_ac = FreshAC /\ cm_attrs = InitAttrs
    /\ (cm_pc = "done" /\ load_model # "none") =>
          /\ cm_ac.actor = saved["policy_weights"]
          /\ cm_ac.critic = saved["value_weights"]
          /\ \A k \in HyperKeys : cm_attrs[k] = saved[k]
          /\ cm_built.optimizer_policy = [params |-> saved["policy_weights"],
                                          lr |-> saved["lr_policy"]]
          /\ cm_built.optimizer_value = [params |-> saved["value_weights"],
                                         lr |-> saved["lr_value"]]
          /\ cm_built.rollout = [buffer_size |-> saved["rollout_size"]]

\* C9: with a checkpoint whose policy_weights or value_weights entry is
\* missing or does not match the networks, create_model raises at the load: it
\* never prints "Loaded pretrained model", never sets an attribute, never
\* builds the optimizers or the rollout buffer, and stops only by raising.
C9_BadCheckpointRaises ==
    BadCheckpoint =>
        /\ cm_pc \in {"start", "load", "actor", "critic", "raised"}
        /\ ~Loads("policy_weights") => cm_pc # "critic"
        /\ cm_printed = <<>>
        /\ cm_attrs = InitAttrs
        /\ cm_built = None
        /\ cm_pc = "raised" => cm_err \in {"KeyError", "RuntimeError"}
        /\ cm_pc # "raised" => ENABLED LoadNext

\* C9 witness: the policy weights were loaded, the value weights do not match,
\* and create_model has raised.
C9_Witness ==
    /\ BadCheckpoint
    /\ cm_pc = "raised"
    /\ cm_err = "RuntimeError"
    /\ cm_ac.actor.data = "saved"
    /\ "value_weights" \in DOMAIN saved

====
